---- MODULE Spec2Model ----
(***************************************************************************)
(* Model of the spa library (src/src/spa): the sequential hypothesis test  *)
(* smc (core.py), the interval search spa built on it, and the property    *)
(* contract the two consume (properties.py, RatioHyperproperty.py).        *)
(*                                                                         *)
(* Conventions.                                                            *)
(*  - Python floats are exact rationals [num, den] with den > 0; they are  *)
(*    never normalised and are compared by cross-multiplication.           *)
(*  - A Python value that may be None, True or False is one of the strings *)
(*    "None", "True", "False".                                             *)
(*  - An optional number (the threshold of a property) is <<>> when it is  *)
(*    None and <<t>> when it is the number t.                              *)
(*  - scipy's beta.cdf is used by the code with integer shape parameters   *)
(*    only, where it is a binomial tail sum; it is modelled by that sum.   *)
(***************************************************************************)
EXTENDS Integers, Sequences, FiniteSets, TLC

VARIABLES
    property_,   \* the property instance handed to smc / spa
    args,        \* the arguments of the call under way
    smc_f,       \* the frame (locals and position) of the smc invocation
    spa_f,       \* the frame (locals and position) of the spa invocation
    mono         \* results of the two smc calls compared for monotonicity

vars == <<property_, args, smc_f, spa_f, mono>>

---------------------------------------------------------------------------
(* Bounds of the model *)

MaxLen == 3      \* longest data source
MaxVal == 2      \* data values are 1..MaxVal
MaxIter == 2     \* largest iteration_limit handed to spa
MaxRows == 2     \* most rows of one system in a data frame
MaxExp == 3      \* start points go up to 9 * 10^MaxExp

---------------------------------------------------------------------------
(* Exact arithmetic *)

Rat(n, d) == [num |-> n, den |-> d]
RatLT(x, y) == x.num * y.den < y.num * x.den
RatLE(x, y) == x.num * y.den <= y.num * x.den
RatSub(x, y) == Rat(x.num * y.den - y.num * x.den, x.den * y.den)

RECURSIVE Pow(_, _)
Pow(b, e) == IF e = 0 THEN 1 ELSE b * Pow(b, e - 1)

RatPow(x, e) == Rat(Pow(x.num, e), Pow(x.den, e))

RECURSIVE Binomial(_, _)
Binomial(n, k) ==
    IF k = 0 \/ k = n THEN 1 ELSE Binomial(n - 1, k - 1) + Binomial(n - 1, k)

RECURSIVE BinomialTail(_, _, _)
\* numerator, over x.den^n, of P(Bin(n, x) >= j)
BinomialTail(x, n, j) ==
    IF j > n THEN 0
    ELSE Binomial(n, j) * Pow(x.num, j) * Pow(x.den - x.num, n - j)
         + BinomialTail(x, n, j + 1)

\* scipy.stats.beta.cdf(x, alpha, beta) for integers alpha, beta >= 1
BetaCdf(x, alpha, beta) ==
    Rat(BinomialTail(x, alpha + beta - 1, alpha), Pow(x.den, alpha + beta - 1))

PyBool(b) == IF b THEN "True" ELSE "False"

Zero == Rat(0, 1)
One == Rat(1, 1)

---------------------------------------------------------------------------
(* The property contract: properties.py and RatioHyperproperty.py *)

Gt == ">"
Lt == "<"

ListThreshold == "properties.ThresholdProperty"
FrameRatio == "RatioHyperproperty.RatioHyperproperty"
UserDefined == "BaseProperty"

\* GenericThreshold.__init__: the comparison and high_threshold_outcome of op
Comparison(op, x, y) == IF op = Gt THEN x > y ELSE x < y

GenericHighThresholdOutcome(op) == IF op = Gt THEN FALSE ELSE TRUE

HighThresholdOutcome(p) ==
    IF p.kind = UserDefined THEN p.high_threshold_outcome
    ELSE GenericHighThresholdOutcome(p.op)

\* GenericProperty.verify_data: a list of numbers of length at least 1
GenericVerifyData(data) == Len(data) >= 1

\* RatioHyperproperty.verify_data (data frame): two systems, each with at
\* least one row
RatioVerifyData(data) == Len(data[1]) >= 1 /\ Len(data[2]) >= 1

VerifyData(p, data) ==
    IF p.kind = FrameRatio THEN RatioVerifyData(data) ELSE GenericVerifyData(data)

\* extract_value is handed an object and returns a value and the remaining
\* data: argument is the object it was handed as the call leaves it, and
\* fresh tells whether the remaining data is a new object (not the argument).

\* faulty variant: the value extracted takes its right neighbour with it
ThresholdExtractValueSkipping(data) ==
    IF Len(data) < 1
    THEN [out_of_data |-> TRUE, value |-> <<>>, data |-> data,
          argument |-> data, fresh |-> FALSE]
    ELSE [out_of_data |-> FALSE, value |-> <<data[1]>>,
          data |-> SubSeq(data, 3, Len(data)), argument |-> data, fresh |-> TRUE]

\* faulty variant: the leftmost value is popped from the list handed in,
\* which is returned as the remaining data
ThresholdExtractValueInPlace(data) ==
    IF Len(data) < 1
    THEN [out_of_data |-> TRUE, value |-> <<>>, data |-> data,
          argument |-> data, fresh |-> FALSE]
    ELSE [out_of_data |-> FALSE, value |-> <<data[1]>>, data |-> Tail(data),
          argument |-> Tail(data), fresh |-> FALSE]

\* ThresholdProperty.extract_value: the leftmost value and the rest, a slice
ThresholdExtractValue(data) ==
    IF Len(data) < 1
    THEN [out_of_data |-> TRUE, value |-> <<>>, data |-> data,
          argument |-> data, fresh |-> FALSE]
    ELSE [out_of_data |-> FALSE, value |-> <<data[1]>>, data |-> Tail(data),
          argument |-> data, fresh |-> TRUE]

\* RatioHyperproperty.extract_value (data frame): the first row of each
\* system, when every system has more than one row left; DataFrame.drop
\* returns a new frame
RatioExtractValue(data) ==
    IF ~(Len(data[1]) > 1 /\ Len(data[2]) > 1)
    THEN [out_of_data |-> TRUE, value |-> <<>>, data |-> data,
          argument |-> data, fresh |-> FALSE]
    ELSE [out_of_data |-> FALSE, value |-> <<data[1][1], data[2][1]>>,
          data |-> <<Tail(data[1]), Tail(data[2])>>,
          argument |-> data, fresh |-> TRUE]

ExtractValue(p, data) ==
    IF p.kind = FrameRatio THEN RatioExtractValue(data)
    ELSE ThresholdExtractValue(data)

\* faulty variant: the operands of the comparison exchanged
ThresholdCheckSampleSatisfySwapped(p, value) ==
    IF p.threshold = <<>> THEN "TypeError"
    ELSE PyBool(Comparison(p.op, p.threshold[1], value[1]))

\* ThresholdProperty.check_sample_satisfy
ThresholdCheckSampleSatisfy(p, value) ==
    IF p.threshold = <<>> THEN "TypeError"
    ELSE PyBool(Comparison(p.op, value[1], p.threshold[1]))

\* RatioHyperproperty.check_sample_satisfy: value[0] / value[1] against the
\* threshold (the values of the model are positive)
RatioCheckSampleSatisfy(p, value) ==
    IF p.threshold = <<>> THEN "TypeError"
    ELSE PyBool(Comparison(p.op, value[1], p.threshold[1] * value[2]))

\* BaseProperty.check_sample_satisfy is abstract.  A user-defined property is
\* any pure function of the value and the threshold; the model draws it from
\* the family "(value + threshold) mod 2 is in residues".
UserCheckSampleSatisfy(p, value) ==
    IF p.threshold = <<>> THEN "TypeError"
    ELSE PyBool(((value[1] + p.threshold[1]) % 2) \in p.residues)

CheckSampleSatisfy(p, value) ==
    CASE p.kind = ListThreshold -> ThresholdCheckSampleSatisfy(p, value)
      [] p.kind = FrameRatio -> RatioCheckSampleSatisfy(p, value)
      [] OTHER -> UserCheckSampleSatisfy(p, value)

---------------------------------------------------------------------------
(* core.py: smc *)

ValidProbability(x) == RatLE(Zero, x) /\ RatLE(x, One)

\* faulty variant: the type of continuous is not checked
SmcIvAnyContinuous(data, p, prob_threshold, desired_conf, continuous_type) ==
    IF ~VerifyData(p, data) THEN "TypeError"
    ELSE IF ~ValidProbability(prob_threshold) THEN "ValueError"
    ELSE IF ~ValidProbability(desired_conf) THEN "ValueError"
    ELSE "ok"

\* _smc_iv: the exception raised by the validation, or "ok".  The argument
\* continuous is a Python object: continuous_type is its type, and its truth
\* value is what the loop of smc tests.
SmcIv(data, p, prob_threshold, desired_conf, continuous_type) ==
    IF ~VerifyData(p, data) THEN "TypeError"
    ELSE IF ~ValidProbability(prob_threshold) THEN "ValueError"
    ELSE IF ~ValidProbability(desired_conf) THEN "ValueError"
    ELSE IF continuous_type # "bool" THEN "ValueError"
    ELSE "ok"

IdleFrame == [status |-> "idle"]

\* smc, lines 46-54: the locals before the loop.  caller_data is the object
\* the caller handed in, and aliased tells whether the local data still is
\* that object.
SmcLocals(data) ==
    [status |-> "loop", exception |-> "None", out_of_data |-> FALSE,
     extract_calls |-> 0, caller_data |-> data, aliased |-> TRUE,
     data |-> data, result |-> "None", num_trials |-> 0,
     satisfied_trials |-> 0, conf_cp |-> Zero, conf_cp_list |-> <<>>,
     lean_list |-> <<>>, satisfied_list |-> <<>>, returned |-> <<>>]

\* smc, lines 43-44
SmcEnter(data, p, prob_threshold, confidence, continuous_type) ==
    LET iv == SmcIv(data, p, prob_threshold, confidence, continuous_type)
    IN  IF iv = "ok" THEN SmcLocals(data)
        ELSE [SmcLocals(data) EXCEPT !.status = "raised", !.exception = iv]

\* dataclasses.create_smc_result
create_smc_result(result, conf, num_trials, satisfied_trials, conf_cp_list, lean_list) ==
    [result |-> result, conf |-> conf,
     result_detail |-> [num_trials |-> num_trials,
                        satisfied_trials |-> satisfied_trials,
                        conf_cp_list |-> conf_cp_list,
                        lean_list |-> lean_list]]

SmcReturn(f, result) ==
    [f EXCEPT !.status = "returned", !.result = result,
              !.returned = <<create_smc_result(result, f.conf_cp, f.num_trials,
                                               f.satisfied_trials,
                                               f.conf_cp_list, f.lean_list)>>]

SmcRaise(f, exception) ==
    [f EXCEPT !.status = "raised", !.exception = exception]

\* faulty variant: the loop goes on while the confidence is <= the target
LoopGuardInclusive(conf_cp, confidence, continuous) ==
    RatLE(conf_cp, confidence) \/ continuous

\* smc, line 56: the condition of the while loop
LoopGuard(conf_cp, confidence, continuous) ==
    RatLT(conf_cp, confidence) \/ continuous

\* smc, lines 84-87: the sub-interval the confidence is computed over
SubInterval(satisfied_trials, num_trials, prob_threshold) ==
    IF RatLT(Rat(satisfied_trials, num_trials), prob_threshold)
    THEN <<Zero, prob_threshold>>
    ELSE <<prob_threshold, One>>

\* faulty variant: the closed form at satisfied_trials = 0 takes the two ends
\* of the sub-interval in the wrong order
ClopperPearsonEndsExchanged(satisfied_trials, num_trials, a, b) ==
    IF satisfied_trials = 0
    THEN RatSub(RatPow(RatSub(One, b), num_trials),
                RatPow(RatSub(One, a), num_trials))
    ELSE IF satisfied_trials = num_trials
    THEN RatSub(RatPow(b, num_trials), RatPow(a, num_trials))
    ELSE RatSub(BetaCdf(b, satisfied_trials + 1, num_trials - satisfied_trials),
                BetaCdf(a, satisfied_trials, num_trials - satisfied_trials + 1))

\* smc, lines 90-97: the Clopper-Pearson confidence of this iteration
ClopperPearson(satisfied_trials, num_trials, a, b) ==
    IF satisfied_trials = 0
    THEN RatSub(RatPow(RatSub(One, a), num_trials),
                RatPow(RatSub(One, b), num_trials))
    ELSE IF satisfied_trials = num_trials
    THEN RatSub(RatPow(b, num_trials), RatPow(a, num_trials))
    ELSE RatSub(BetaCdf(b, satisfied_trials + 1, num_trials - satisfied_trials),
                BetaCdf(a, satisfied_trials, num_trials - satisfied_trials + 1))

\* smc, line 102: the provisional verdict
Lean(satisfied_trials, num_trials, prob_threshold) ==
    PyBool(RatLT(prob_threshold, Rat(satisfied_trials, num_trials)))

\* faulty variant: the handler is content with a target reached at any trial
SmcOutOfDataHandlerEverConfident(f, prob_threshold, confidence) ==
    LET g == [f EXCEPT !.out_of_data = TRUE]
    IN  IF \A i \in 1..Len(f.conf_cp_list) : RatLT(f.conf_cp_list[i], confidence)
        THEN SmcReturn(g, "None")
        ELSE IF f.num_trials = 0 THEN SmcRaise(g, "ZeroDivisionError")
        ELSE SmcReturn(g, Lean(f.satisfied_trials, f.num_trials, prob_threshold))

\* smc, lines 65-73: the handler of OutOfDataException
SmcOutOfDataHandler(f, prob_threshold, confidence) ==
    LET g == [f EXCEPT !.out_of_data = TRUE]
    IN  IF RatLT(f.conf_cp, confidence) THEN SmcReturn(g, "None")
        ELSE IF f.num_trials = 0 THEN SmcRaise(g, "ZeroDivisionError")
        ELSE SmcReturn(g, Lean(f.satisfied_trials, f.num_trials, prob_threshold))

\* faulty variant: the lean trace records a verdict only when it changes
SmcTrialUpdateLeanOnChange(f, data, sample_satisfy, prob_threshold) ==
    LET satisfied_trials ==
            IF sample_satisfy = "True" THEN f.satisfied_trials + 1
            ELSE f.satisfied_trials
        num_trials == f.num_trials + 1
        ab == SubInterval(satisfied_trials, num_trials, prob_threshold)
        conf_cp == ClopperPearson(satisfied_trials, num_trials, ab[1], ab[2])
        result == Lean(satisfied_trials, num_trials, prob_threshold)
    IN  [f EXCEPT !.data = data,
                  !.satisfied_trials = satisfied_trials,
                  !.satisfied_list = Append(@, sample_satisfy),
                  !.num_trials = num_trials,
                  !.conf_cp = conf_cp,
                  !.conf_cp_list = Append(@, conf_cp),
                  !.result = result,
                  !.lean_list = IF result = f.result THEN @
                                ELSE Append(@, result)]

\* smc, lines 77-103: the trial on a sample whose check gave sample_satisfy
SmcTrialUpdate(f, data, sample_satisfy, prob_threshold) ==
    LET satisfied_trials ==
            IF sample_satisfy = "True" THEN f.satisfied_trials + 1
            ELSE f.satisfied_trials
        num_trials == f.num_trials + 1
        ab == SubInterval(satisfied_trials, num_trials, prob_threshold)
        conf_cp == ClopperPearson(satisfied_trials, num_trials, ab[1], ab[2])
        result == Lean(satisfied_trials, num_trials, prob_threshold)
    IN  [f EXCEPT !.data = data,
                  !.satisfied_trials = satisfied_trials,
                  !.satisfied_list = Append(@, sample_satisfy),
                  !.num_trials = num_trials,
                  !.conf_cp = conf_cp,
                  !.conf_cp_list = Append(@, conf_cp),
                  !.result = result,
                  !.lean_list = Append(@, result)]

\* smc, lines 57-103: one pass of the body of the while loop.  No property of
\* the repository returns None from check_sample_satisfy, so the inner loop
\* runs once.
SmcBody(f, p, prob_threshold, confidence) ==
    LET ex == ExtractValue(p, f.data)
        g == [f EXCEPT !.extract_calls = @ + 1,
                       !.caller_data = IF f.aliased THEN ex.argument ELSE @,
                       !.aliased = f.aliased /\ ~ex.fresh]
    IN  IF ex.out_of_data THEN SmcOutOfDataHandler(g, prob_threshold, confidence)
        ELSE LET sample_satisfy == CheckSampleSatisfy(p, ex.value)
             IN  IF sample_satisfy = "TypeError" THEN SmcRaise(g, "TypeError")
                 ELSE SmcTrialUpdate(g, ex.data, sample_satisfy, prob_threshold)

\* smc, lines 56-105: the loop test, then the body or the final return
SmcStep(f, p, prob_threshold, confidence, continuous) ==
    IF LoopGuard(f.conf_cp, confidence, continuous)
    THEN SmcBody(f, p, prob_threshold, confidence)
    ELSE SmcReturn(f, f.result)

RECURSIVE SmcLoop(_, _, _, _, _)
SmcLoop(f, p, prob_threshold, confidence, continuous) ==
    IF f.status = "loop"
    THEN SmcLoop(SmcStep(f, p, prob_threshold, confidence, continuous),
                 p, prob_threshold, confidence, continuous)
    ELSE f

\* smc as a whole, called with a bool for continuous: the frame it ends in
Smc(data, p, prob_threshold, confidence, continuous) ==
    SmcLoop(SmcEnter(data, p, prob_threshold, confidence, "bool"),
            p, prob_threshold, confidence, continuous)

---------------------------------------------------------------------------
(* util.py *)

\* Python's round on the quotient num / den (den > 0): to the nearest
\* integer, a tie going to the even one
PyRound(num, den) ==
    LET q == num \div den
        r == num % den
    IN  IF 2 * r < den THEN q
        ELSE IF 2 * r > den THEN q + 1
        ELSE IF q % 2 = 0 THEN q ELSE q + 1

\* round_to(val, precision) for a rational val and an integer precision > 0
round_to(val, precision) == PyRound(val.num, val.den * precision) * precision

\* Python dicts are sequences of [key, value] in insertion order
DictKeys(d) == {d[i].key : i \in 1..Len(d)}

DictGet(d, k) == d[CHOOSE i \in 1..Len(d) : d[i].key = k].value

\* d[k] = v
DictSet(d, k, v) ==
    IF k \in DictKeys(d)
    THEN [i \in 1..Len(d) |-> IF d[i].key = k THEN [key |-> k, value |-> v] ELSE d[i]]
    ELSE Append(d, [key |-> k, value |-> v])

RECURSIVE DictUpdate(_, _)
\* {**d, **e}
DictUpdate(d, e) ==
    IF e = <<>> THEN d
    ELSE DictUpdate(DictSet(d, e[1].key, e[1].value), Tail(e))

RECURSIVE SortedInsert(_, _)
SortedInsert(sorted, item) ==
    IF sorted = <<>> THEN <<item>>
    ELSE IF item.key < sorted[1].key THEN <<item>> \o sorted
    ELSE <<sorted[1]>> \o SortedInsert(Tail(sorted), item)

RECURSIVE sort_dict_by_key(_)
\* sorted() is stable; the keys of a dict are distinct
sort_dict_by_key(dictionary) ==
    IF dictionary = <<>> THEN <<>>
    ELSE SortedInsert(sort_dict_by_key(SubSeq(dictionary, 1, Len(dictionary) - 1)),
                      dictionary[Len(dictionary)])

SetMax(S) == CHOOSE x \in S : \A y \in S : y <= x
SetMin(S) == CHOOSE x \in S : \A y \in S : x <= y

---------------------------------------------------------------------------
(* ThresholdProperty.start_point_estimate: numpy.quantile(data, 1 - p) *)

\* the k-th smallest element of data, k in 1..Len(data)
KthSmallest(data, k) ==
    CHOOSE v \in {data[i] : i \in 1..Len(data)} :
        /\ Cardinality({i \in 1..Len(data) : data[i] < v}) < k
        /\ k <= Cardinality({i \in 1..Len(data) : data[i] <= v})

\* numpy.quantile with linear interpolation, as a rational over q.den
Quantile(data, q) ==
    LET n == Len(data)
        h == (n - 1) * q.num                \* the position, over q.den
        lo == h \div q.den
        hi == IF lo + 1 < n THEN lo + 1 ELSE n - 1
        x == KthSmallest(data, lo + 1)
        y == KthSmallest(data, hi + 1)
    IN  Rat(x * q.den + (h - lo * q.den) * (y - x), q.den)

\* start_point_estimate: the estimate, or the exception it raises.  The base
\* class raises NotImplementedError; numpy does not accept an empty list (the
\* exception is an IndexError in the numpy versions that raise at once).
StartPointEstimate(p, data, proportion) ==
    IF p.kind = UserDefined
    THEN [exception |-> "NotImplementedError", value |-> Zero]
    ELSE IF Len(data) = 0 THEN [exception |-> "IndexError", value |-> Zero]
    ELSE [exception |-> "None", value |-> Quantile(data, RatSub(One, proportion))]

---------------------------------------------------------------------------
(* core.py: spa and _linear_search *)

\* _spa_iv
SpaIv(granularity) == IF granularity <= 0 THEN "ValueError" ELSE "ok"

\* caller_data is the object the caller handed in as data
SpaLocals(data) ==
    [status |-> "call", exception |-> "None", caller_data |-> data,
     search_start_point |-> 0,
     granularity |-> 0, goal_bool_incr |-> "None", goal_bool_decr |-> "None",
     direction |-> "None", goal_bool |-> "None", smc_res_detail |-> <<>>,
     param |-> 0, iteration |-> 0, smc_dict_incr |-> <<>>,
     smc_dict_decr |-> <<>>, tested |-> <<>>, estimate_calls |-> 0,
     returned |-> <<>>]

SpaRaise(f, exception) == [f EXCEPT !.status = "raised", !.exception = exception]

\* faulty variant: the start point is estimated before the validation
SpaEnterEstimateFirst(f, p, a) ==
    LET est == IF a.search_start_point = <<>>
               THEN StartPointEstimate(p, a.data, a.prob_threshold)
               ELSE [exception |-> "None",
                     value |-> Rat(a.search_start_point[1], 1)]
        g == IF a.search_start_point = <<>>
             THEN [f EXCEPT !.estimate_calls = @ + 1] ELSE f
    IN  IF est.exception # "None" THEN SpaRaise(g, est.exception)
        ELSE IF SpaIv(a.granularity) # "ok" THEN SpaRaise(g, SpaIv(a.granularity))
        ELSE [g EXCEPT !.status = "search",
                       !.direction = "add",
                       !.granularity = a.granularity,
                       !.search_start_point = round_to(est.value, a.granularity),
                       !.goal_bool_incr = PyBool(HighThresholdOutcome(p)),
                       !.goal_bool_decr = PyBool(~HighThresholdOutcome(p))]

\* spa, lines 165-180: validation, start point, goals
SpaEnter(f, p, a) ==
    IF SpaIv(a.granularity) # "ok" THEN SpaRaise(f, SpaIv(a.granularity))
    ELSE LET est == IF a.search_start_point = <<>>
                    THEN StartPointEstimate(p, a.data, a.prob_threshold)
                    ELSE [exception |-> "None",
                          value |-> Rat(a.search_start_point[1], 1)]
             g == IF a.search_start_point = <<>>
                  THEN [f EXCEPT !.estimate_calls = @ + 1] ELSE f
         IN  IF est.exception # "None" THEN SpaRaise(g, est.exception)
             ELSE [g EXCEPT !.status = "search",
                            !.direction = "add",
                            !.granularity = a.granularity,
                            !.search_start_point = round_to(est.value, a.granularity),
                            !.goal_bool_incr = PyBool(HighThresholdOutcome(p)),
                            !.goal_bool_decr = PyBool(~HighThresholdOutcome(p))]

\* faulty variant: the search moves by two granularities at a time
NextParamTwoSteps(direction, param, granularity) ==
    IF direction = "add"
    THEN round_to(Rat(param + 2 * granularity, 1), granularity)
    ELSE round_to(Rat(param - 2 * granularity, 1), granularity)

\* _linear_search, line 133: the next parameter
NextParam(direction, param, granularity) ==
    IF direction = "add"
    THEN round_to(Rat(param + granularity, 1), granularity)
    ELSE round_to(Rat(param - granularity, 1), granularity)

\* _linear_search, lines 115-120
LinearSearchLocals(f, goal_bool) ==
    [f EXCEPT !.status = "loop", !.goal_bool = goal_bool, !.smc_res_detail = <<>>,
              !.param = f.search_start_point, !.iteration = 0]

\* spa, lines 184-192, once a directional search has returned its dict
LinearSearchReturn(f, smc_res_detail) ==
    IF f.direction = "add"
    THEN [f EXCEPT !.status = "search", !.direction = "sub",
                   !.smc_dict_incr = smc_res_detail,
                   !.search_start_point =
                       round_to(Rat(f.search_start_point - f.granularity, 1),
                                f.granularity)]
    ELSE [f EXCEPT !.status = "combine", !.smc_dict_decr = smc_res_detail]

\* faulty variant: the loop admits one iteration more
LinearSearchGuardInclusive(iteration, iteration_limit) ==
    iteration <= iteration_limit

\* _linear_search, line 122: the condition of the while loop
LinearSearchGuard(iteration, iteration_limit) == iteration < iteration_limit

\* faulty variant: the search that ran out of iterations returns what it has
LinearSearchGiveUp(f) == LinearSearchReturn(f, f.smc_res_detail)

\* _linear_search, lines 137-141: the loop ended without the goal
LinearSearchFail(f) == SpaRaise(f, "SPAException")

\* faulty variant: the search runs smc without continuous
LinearSearchSmcStopping(data, p, prob_threshold, confidence) ==
    Smc(data, p, prob_threshold, confidence, FALSE)

\* _linear_search, line 124: smc with continuous=True on the whole data
LinearSearchSmc(data, p, prob_threshold, confidence) ==
    Smc(data, p, prob_threshold, confidence, TRUE)

\* faulty variant: the search stops at any determinate verdict
LinearSearchBodyAnyVerdict(f, run) ==
    IF run.status = "raised"
    THEN SpaRaise([f EXCEPT !.caller_data = run.caller_data], run.exception)
    ELSE LET smc_result == run.returned[1]
             smc_res_detail == DictSet(f.smc_res_detail, f.param, smc_result)
             g == [f EXCEPT !.smc_res_detail = smc_res_detail,
                            !.caller_data = run.caller_data,
                            !.tested = Append(@, [direction |-> f.direction,
                                                  threshold |-> f.param,
                                                  result |-> smc_result.result,
                                                  num_trials |-> run.num_trials,
                                                  started_with |-> f.caller_data])]
         IN  IF smc_result.result # "None"
             THEN LinearSearchReturn(g, smc_res_detail)
             ELSE [g EXCEPT !.param = NextParam(f.direction, f.param, f.granularity),
                            !.iteration = @ + 1]

\* _linear_search, lines 123-135: one pass of the loop, run being the frame
\* the smc call ended in
LinearSearchBody(f, run) ==
    IF run.status = "raised"
    THEN SpaRaise([f EXCEPT !.caller_data = run.caller_data], run.exception)
    ELSE LET smc_result == run.returned[1]
             smc_res_detail == DictSet(f.smc_res_detail, f.param, smc_result)
             g == [f EXCEPT !.smc_res_detail = smc_res_detail,
                            !.caller_data = run.caller_data,
                            !.tested = Append(@, [direction |-> f.direction,
                                                  threshold |-> f.param,
                                                  result |-> smc_result.result,
                                                  num_trials |-> run.num_trials,
                                                  started_with |-> f.caller_data])]
         IN  IF smc_result.result = f.goal_bool
             THEN LinearSearchReturn(g, smc_res_detail)
             ELSE [g EXCEPT !.param = NextParam(f.direction, f.param, f.granularity),
                            !.iteration = @ + 1]

\* faulty variant: the two branches of the interval exchanged
IntervalBoundsSwapped(goal_bool_incr, smc_dict) ==
    LET false_keys == {k \in DictKeys(smc_dict) : DictGet(smc_dict, k).result = "False"}
        true_keys == {k \in DictKeys(smc_dict) : DictGet(smc_dict, k).result = "True"}
    IN  IF goal_bool_incr = "True"
        THEN [lows |-> true_keys, highs |-> false_keys]
        ELSE [lows |-> false_keys, highs |-> true_keys]

\* spa, lines 198-204: the keys the low and the high bound are taken from
IntervalBounds(goal_bool_incr, smc_dict) ==
    LET false_keys == {k \in DictKeys(smc_dict) : DictGet(smc_dict, k).result = "False"}
        true_keys == {k \in DictKeys(smc_dict) : DictGet(smc_dict, k).result = "True"}
    IN  IF goal_bool_incr = "True"
        THEN [lows |-> false_keys, highs |-> true_keys]
        ELSE [lows |-> true_keys, highs |-> false_keys]

\* faulty variant: the merged dict is left in insertion order
MergeDictsUnsorted(smc_dict_decr, smc_dict_incr) ==
    DictUpdate(smc_dict_decr, smc_dict_incr)

\* spa, line 195
MergeDicts(smc_dict_decr, smc_dict_incr) ==
    sort_dict_by_key(DictUpdate(smc_dict_decr, smc_dict_incr))

\* faulty variant: the low bound is the least, not the greatest, of its keys
SpaFinishLeastLow(f) ==
    LET smc_dict == MergeDicts(f.smc_dict_decr, f.smc_dict_incr)
        bounds == IntervalBounds(f.goal_bool_incr, smc_dict)
    IN  IF bounds.lows = {} \/ bounds.highs = {} THEN SpaRaise(f, "ValueError")
        ELSE [f EXCEPT !.status = "returned",
                       !.returned =
                           <<[confidence_interval |->
                                  [low |-> SetMin(bounds.lows),
                                   high |-> SetMin(bounds.highs)],
                              result_detail |-> smc_dict]>>]

\* spa, lines 194-206
SpaFinish(f) ==
    LET smc_dict == MergeDicts(f.smc_dict_decr, f.smc_dict_incr)
        bounds == IntervalBounds(f.goal_bool_incr, smc_dict)
    IN  IF bounds.lows = {} \/ bounds.highs = {} THEN SpaRaise(f, "ValueError")
        ELSE [f EXCEPT !.status = "returned",
                       !.returned =
                           <<[confidence_interval |->
                                  [low |-> SetMax(bounds.lows),
                                   high |-> SetMin(bounds.highs)],
                              result_detail |-> smc_dict]>>]

---------------------------------------------------------------------------
(* Inputs *)

Values == 1..MaxVal
Thresholds == 0..MaxVal

RECURSIVE SeqsUpTo(_, _)
SeqsUpTo(S, n) ==
    IF n = 0 THEN {<<>>}
    ELSE LET shorter == SeqsUpTo(S, n - 1)
         IN  shorter \cup {Append(s, x) : s \in {t \in shorter : Len(t) = n - 1},
                                            x \in S}

DataLists == SeqsUpTo(Values, MaxLen)

Probabilities == {Rat(0, 1), Rat(1, 2), Rat(3, 4), Rat(1, 1)}

ThresholdProperties ==
    [kind : {ListThreshold}, op : {Gt, Lt},
     threshold : {<<>>} \cup {<<t>> : t \in Thresholds}]

DataFrames ==
    {<<xs, ys>> : xs \in SeqsUpTo(Values, MaxRows), ys \in SeqsUpTo(Values, MaxRows)}

RatioProperties ==
    [kind : {FrameRatio}, op : {Gt, Lt}, threshold : {<<>>, <<1>>}]

UserProperties ==
    [kind : {UserDefined}, threshold : {<<>>}, residues : {{0}, {0, 1}},
     high_threshold_outcome : BOOLEAN]

SearchProperties ==
    [kind : {ListThreshold}, op : {Gt, Lt}, threshold : {<<>>, <<1>>}]
        \cup UserProperties

SearchProbabilities == {Rat(1, 2), Rat(3, 4)}

SpaArgs ==
    [call : {"spa"}, data : DataLists, prob_threshold : SearchProbabilities,
     confidence : Probabilities, iteration_limit : {0, 1, MaxIter},
     granularity : -1..MaxVal,
     search_start_point : {<<>>} \cup {<<t>> : t \in Values}]

ThresholdPairs == {<<t1, t2>> \in Thresholds \X Thresholds : t1 < t2}

\* the numbers smc may be handed as prob_threshold and confidence, in and out
\* of [0, 1]
SmcProbabilities == Probabilities \cup {Rat(-1, 2), Rat(3, 2)}

\* the types of the objects smc may be handed as continuous
ContinuousTypes == {"bool", "int", "NoneType"}

\* continuous is its truth value; a None is false
SmcArgs(datas) ==
    {a \in [call : {"smc"}, data : datas, prob_threshold : SmcProbabilities,
             confidence : SmcProbabilities, continuous : BOOLEAN,
             continuous_type : ContinuousTypes] :
        a.continuous_type = "NoneType" => ~a.continuous}

---------------------------------------------------------------------------
(* Spec: one call of smc on a list with a ThresholdProperty, step by step *)

Init ==
    /\ property_ \in ThresholdProperties
    /\ args \in SmcArgs(DataLists)
    /\ smc_f = [status |-> "call"]
    /\ spa_f = IdleFrame
    /\ mono = <<>>

\* smc is entered: the validation, then the locals
SmcCall ==
    /\ smc_f.status = "call"
    /\ smc_f' = SmcEnter(args.data, property_, args.prob_threshold, args.confidence,
                         args.continuous_type)
    /\ UNCHANGED <<property_, args, spa_f, mono>>

\* the loop test fails: the confidence is reached and continuous is not set
SmcReturnConfident ==
    /\ smc_f.status = "loop"
    /\ ~LoopGuard(smc_f.conf_cp, args.confidence, args.continuous)
    /\ smc_f' = SmcStep(smc_f, property_, args.prob_threshold, args.confidence,
                        args.continuous)
    /\ UNCHANGED <<property_, args, spa_f, mono>>

\* the loop body, extract_value raising OutOfDataException
SmcOutOfData ==
    /\ smc_f.status = "loop"
    /\ LoopGuard(smc_f.conf_cp, args.confidence, args.continuous)
    /\ ExtractValue(property_, smc_f.data).out_of_data
    /\ smc_f' = SmcStep(smc_f, property_, args.prob_threshold, args.confidence,
                        args.continuous)
    /\ UNCHANGED <<property_, args, spa_f, mono>>

\* faulty variant: the sample is drawn from an arbitrary position of the data
SmcTrialAnySample ==
    /\ smc_f.status = "loop"
    /\ LoopGuard(smc_f.conf_cp, args.confidence, args.continuous)
    /\ ~ExtractValue(property_, smc_f.data).out_of_data
    /\ \E i \in 1..Len(smc_f.data) :
           smc_f' = SmcStep([smc_f EXCEPT !.data = SubSeq(@, i, Len(@))
                                                      \o SubSeq(@, 1, i - 1)],
                            property_, args.prob_threshold, args.confidence,
                            args.continuous)
    /\ UNCHANGED <<property_, args, spa_f, mono>>

\* the loop body on a sample
SmcTrial ==
    /\ smc_f.status = "loop"
    /\ LoopGuard(smc_f.conf_cp, args.confidence, args.continuous)
    /\ ~ExtractValue(property_, smc_f.data).out_of_data
    /\ smc_f' = SmcStep(smc_f, property_, args.prob_threshold, args.confidence,
                        args.continuous)
    /\ UNCHANGED <<property_, args, spa_f, mono>>

Next == SmcCall \/ SmcReturnConfident \/ SmcOutOfData \/ SmcTrial

Spec == Init /\ [][Next]_vars

---------------------------------------------------------------------------
(* SpecRatio: one call of smc on a data frame with a RatioHyperproperty *)

InitRatio ==
    /\ property_ \in RatioProperties
    /\ args \in SmcArgs(DataFrames)
    /\ smc_f = [status |-> "call"]
    /\ spa_f = IdleFrame
    /\ mono = <<>>

SpecRatio == InitRatio /\ [][Next]_vars

---------------------------------------------------------------------------
(* SpecSPA: one call of spa; each smc call of a search is one step *)

InitSPA ==
    /\ property_ \in SearchProperties
    /\ args \in SpaArgs
    /\ smc_f = IdleFrame
    /\ spa_f = SpaLocals(args.data)
    /\ mono = <<>>

\* spa is entered: validation, start point, granularity, goals
SpaCall ==
    /\ spa_f.status = "call"
    /\ spa_f' = SpaEnter(spa_f, property_, args)
    /\ UNCHANGED <<property_, args, smc_f, mono>>

\* _linear_search is entered: the threshold is set to the start point
LinearSearchCall ==
    /\ spa_f.status = "search"
    /\ spa_f' = LinearSearchLocals(spa_f, IF spa_f.direction = "add"
                                          THEN spa_f.goal_bool_incr
                                          ELSE spa_f.goal_bool_decr)
    /\ property_' = [property_ EXCEPT !.threshold = <<spa_f.search_start_point>>]
    /\ UNCHANGED <<args, smc_f, mono>>

\* faulty variant: the threshold of the property does not follow the param
LinearSearchIterateStaleThreshold ==
    /\ spa_f.status = "loop"
    /\ LinearSearchGuard(spa_f.iteration, args.iteration_limit)
    /\ LET run == LinearSearchSmc(spa_f.caller_data, property_, args.prob_threshold,
                                  args.confidence)
       IN  spa_f' = LinearSearchBody(spa_f, run)
    /\ UNCHANGED <<property_, args, smc_f, mono>>

\* one pass of the loop of _linear_search
LinearSearchIterate ==
    /\ spa_f.status = "loop"
    /\ LinearSearchGuard(spa_f.iteration, args.iteration_limit)
    /\ LET run == LinearSearchSmc(spa_f.caller_data, property_, args.prob_threshold,
                                  args.confidence)
           f == LinearSearchBody(spa_f, run)
       IN  /\ spa_f' = f
           /\ property_' = IF f.status = "loop"
                           THEN [property_ EXCEPT !.threshold = <<f.param>>]
                           ELSE property_
    /\ UNCHANGED <<args, smc_f, mono>>

\* the loop of _linear_search ends without the goal: SPAException
LinearSearchExhausted ==
    /\ spa_f.status = "loop"
    /\ ~LinearSearchGuard(spa_f.iteration, args.iteration_limit)
    /\ spa_f' = LinearSearchFail(spa_f)
    /\ UNCHANGED <<property_, args, smc_f, mono>>

\* both searches returned: the merged dict and the interval
SpaCombine ==
    /\ spa_f.status = "combine"
    /\ spa_f' = SpaFinish(spa_f)
    /\ UNCHANGED <<property_, args, smc_f, mono>>

NextSPA ==
    SpaCall \/ LinearSearchCall \/ LinearSearchIterate \/ LinearSearchExhausted
        \/ SpaCombine

SpecSPA == InitSPA /\ [][NextSPA]_vars

---------------------------------------------------------------------------
(* Claims about smc *)

Verdicts == {"True", "False", "None"}

SmcEntered == smc_f.status \in {"loop", "returned", "raised"}

\* C1: the verdict smc returns is True, False or None, and it is None if and
\* only if the data was exhausted before the target confidence was reached.
C1_NoneIffExhaustedBeforeConfidence ==
    smc_f.status = "returned" =>
        /\ smc_f.returned[1].result \in Verdicts
        /\ smc_f.returned[1].result = "None"
             <=> (smc_f.out_of_data /\ RatLT(smc_f.conf_cp, args.confidence))

\* C2: with continuous = False, every confidence before the last one of the
\* trace is below the target, and no sample is extracted after the first
\* trial whose confidence reached the target.
C2_StopsAtFirstConfidentTrial ==
    (SmcEntered /\ ~args.continuous) =>
        \A i \in 1..Len(smc_f.conf_cp_list) :
            ~RatLT(smc_f.conf_cp_list[i], args.confidence) =>
                /\ i = Len(smc_f.conf_cp_list)
                /\ smc_f.extract_calls = i

C2_Witness ==
    /\ smc_f.status = "returned"
    /\ ~args.continuous
    /\ Len(smc_f.conf_cp_list) >= 2
    /\ ~RatLT(smc_f.conf_cp, args.confidence)
    /\ Len(smc_f.data) >= 1

\* C9: whenever extract_value raises OutOfDataException, smc returns an
\* SMCResult with a verdict; nothing is raised to the caller.
C9_OutOfDataAlwaysReturns ==
    (SmcEntered /\ smc_f.out_of_data) =>
        /\ smc_f.status = "returned"
        /\ smc_f.returned[1].result \in Verdicts

---------------------------------------------------------------------------
(* SpecMono: smc as a function, applied at two thresholds t1 < t2 of a     *)
(* greater-than ThresholdProperty on the same data and parameters          *)

InitMono ==
    /\ property_ \in [kind : {ListThreshold}, op : {Gt}, threshold : {<<>>}]
    /\ args \in [call : {"smc twice"}, data : DataLists,
                 prob_threshold : Probabilities, confidence : Probabilities,
                 continuous : BOOLEAN, thresholds : ThresholdPairs]
    /\ smc_f = IdleFrame
    /\ spa_f = IdleFrame
    /\ mono = <<>>

SmcAt(t) ==
    Smc(args.data, [property_ EXCEPT !.threshold = <<t>>], args.prob_threshold,
        args.confidence, args.continuous)

MonoApply ==
    /\ mono = <<>>
    /\ mono' = <<SmcAt(args.thresholds[1]), SmcAt(args.thresholds[2])>>
    /\ UNCHANGED <<property_, args, smc_f, spa_f>>

NextMono == MonoApply

SpecMono == InitMono /\ [][NextMono]_vars

\* C7: for a greater-than property and t1 < t2 on the same data and
\* parameters, a True verdict at t2 implies a True verdict at t1, and a
\* False verdict at t1 implies a False verdict at t2.
C7_VerdictMonotoneInThreshold ==
    (mono # <<>> /\ mono[1].status = "returned" /\ mono[2].status = "returned") =>
        /\ mono[2].returned[1].result = "True" => mono[1].returned[1].result = "True"
        /\ mono[1].returned[1].result = "False" => mono[2].returned[1].result = "False"

C7_Witness ==
    /\ mono # <<>>
    /\ mono[1].status = "returned"
    /\ mono[2].status = "returned"
    /\ mono[1].returned[1].result = "True"
    /\ mono[2].returned[1].result = "False"
    /\ mono[1].num_trials >= 2

---------------------------------------------------------------------------
(* Claims about spa *)

SpaReturned == spa_f.status = "returned"

Interval == spa_f.returned[1].confidence_interval
ResultDetail == spa_f.returned[1].result_detail

TestedIn(direction) ==
    {i \in 1..Len(spa_f.tested) : spa_f.tested[i].direction = direction}

TestedWith(result) ==
    {spa_f.tested[i].threshold :
        i \in {j \in 1..Len(spa_f.tested) : spa_f.tested[j].result = result}}

GoalOf(direction) ==
    IF direction = "add" THEN PyBool(HighThresholdOutcome(property_))
    ELSE PyBool(~HighThresholdOutcome(property_))

ReachedGoal(direction) ==
    \E i \in TestedIn(direction) : spa_f.tested[i].result = GoalOf(direction)

\* C3: within one spa call every SMCResult of the result map, and of the
\* dicts of the two searches while they are built, has the same trial count:
\* every sample of the data.
C3_SameTrialCountAtEveryThreshold ==
    spa_f.status # "idle" =>
        \A d \in {spa_f.smc_res_detail, spa_f.smc_dict_incr, spa_f.smc_dict_decr}
                 \cup (IF SpaReturned THEN {ResultDetail} ELSE {}) :
            \A i \in 1..Len(d) :
                /\ d[i].value.result_detail.num_trials = Len(args.data)
                /\ \A j \in 1..Len(d) :
                       d[i].value.result_detail.num_trials
                           = d[j].value.result_detail.num_trials

C3_Witness ==
    /\ SpaReturned
    /\ Len(ResultDetail) >= 3
    /\ Len(args.data) >= 3
    /\ \E i \in 1..Len(ResultDetail) :
           /\ ResultDetail[i].value.result_detail.num_trials = Len(args.data)
           /\ ~RatLT(ResultDetail[i].value.result_detail.conf_cp_list[1],
                     args.confidence)

IntervalOrdered ==
    /\ Interval.low <= Interval.high
    /\ Interval.low \in DictKeys(ResultDetail)
    /\ Interval.high \in DictKeys(ResultDetail)

C5_IntervalBracketsTheFlip ==
    SpaReturned =>
        IF HighThresholdOutcome(property_)
        THEN /\ Interval.low = SetMax(TestedWith("False"))
             /\ Interval.high = SetMin(TestedWith("True"))
        ELSE /\ Interval.low = SetMax(TestedWith("True"))
             /\ Interval.high = SetMin(TestedWith("False"))

C5_Witness ==
    /\ SpaReturned
    /\ HighThresholdOutcome(property_)
    /\ Cardinality(TestedWith("False")) >= 2
    /\ Interval.low = SetMax(TestedWith("False"))
    /\ Interval.high = SetMin(TestedWith("True"))

GreaterThan == property_.kind = ListThreshold /\ property_.op = Gt

\* C6 (as claimed): for a greater-than property the verdict recorded at the
\* low bound is False and the verdict recorded at the high bound is True.
C6_GreaterThanLowFalseHighTrue ==
    (SpaReturned /\ GreaterThan) =>
        /\ DictGet(ResultDetail, Interval.low).result = "False"
        /\ DictGet(ResultDetail, Interval.high).result = "True"

\* C6 (amended): for a greater-than property the verdict recorded at the low
\* bound is True and the verdict recorded at the high bound is False.
C6_GreaterThanLowTrueHighFalse ==
    (SpaReturned /\ GreaterThan) =>
        /\ DictGet(ResultDetail, Interval.low).result = "True"
        /\ DictGet(ResultDetail, Interval.high).result = "False"

C6_Witness ==
    /\ SpaReturned
    /\ GreaterThan
    /\ Interval.low < Interval.high
    /\ Len(ResultDetail) >= 2

\* the verdict of a continuous run that ends with s satisfied trials out of n
FinalVerdict(s, n) ==
    LET ab == SubInterval(s, n, args.prob_threshold)
    IN  IF RatLT(ClopperPearson(s, n, ab[1], ab[2]), args.confidence) THEN "None"
        ELSE Lean(s, n, args.prob_threshold)

\* the data holds too few samples for the verdict goal, whatever the threshold
Insufficient(goal) ==
    /\ Len(args.data) >= 1
    /\ \A s \in 0..Len(args.data) : FinalVerdict(s, Len(args.data)) # goal

---------------------------------------------------------------------------
(* SpecScenario: one call of smc, step by step, on the data, thresholds    *)
(* and probabilities of the two documented smc scenarios                   *)

ScenarioData == {<<10, 20, 30, 40, 50>>, <<1, 1, 1, 1, 1>>}

ScenarioProperties ==
    [kind : {ListThreshold}, op : {Gt, Lt}, threshold : {<<2>>, <<25>>}]

ScenarioArgs ==
    [call : {"smc"}, data : ScenarioData,
     prob_threshold : {Rat(0, 1), Rat(1, 2), Rat(9, 10)},
     confidence : {Rat(1, 2), Rat(9, 10)}, continuous : BOOLEAN,
     continuous_type : {"bool"}]

InitScenario ==
    /\ property_ \in ScenarioProperties
    /\ args \in ScenarioArgs
    /\ smc_f = [status |-> "call"]
    /\ spa_f = IdleFrame
    /\ mono = <<>>

SpecScenario == InitScenario /\ [][Next]_vars

\* equality of two rationals (without the products when the denominators
\* agree)
RatEq(x, y) ==
    IF x.den = y.den THEN x.num = y.num ELSE x.num * y.den = y.num * x.den

Scenario1 ==
    /\ property_ = [kind |-> ListThreshold, op |-> Gt, threshold |-> <<25>>]
    /\ args.data = <<10, 20, 30, 40, 50>>
    /\ args.prob_threshold = Rat(1, 2)
    /\ args.confidence = Rat(1, 2)

\* C11 (as claimed): smc on [10,20,30,40,50] with a greater-than property at
\* threshold 25, prob_threshold 0.5 and confidence 0.5, continuous not set,
\* returns True once at least 3 samples are counted as exceeding 25 and the
\* confidence is >= 0.5.
C11_Scenario1ReturnsTrue ==
    (Scenario1 /\ ~args.continuous /\ smc_f.status = "returned") =>
        /\ smc_f.returned[1].result = "True"
        /\ smc_f.returned[1].result_detail.satisfied_trials >= 3
        /\ ~RatLT(smc_f.returned[1].conf, args.confidence)

\* C11 (amended): on that input smc never raises; with continuous not set it
\* returns False after the first trial (10 does not exceed 25, and the
\* confidence 1 - (1 - 0.5)^1 = 0.5 has reached the target); with continuous
\* set it returns True after 5 trials, 3 of them satisfied, at confidence 0.5.
C11_Scenario1StopsAtFirstTrialWithFalse ==
    Scenario1 =>
        /\ smc_f.status # "raised"
        /\ smc_f.status = "returned" =>
               LET r == smc_f.returned[1]
               IN  IF args.continuous
                   THEN /\ r.result = "True"
                        /\ r.result_detail.num_trials = 5
                        /\ r.result_detail.satisfied_trials = 3
                        /\ RatEq(r.conf, Rat(1, 2))
                   ELSE /\ r.result = "False"
                        /\ r.result_detail.num_trials = 1
                        /\ r.result_detail.satisfied_trials = 0
                        /\ RatEq(r.conf, Rat(1, 2))
                        /\ smc_f.extract_calls = 1

C11_Witness ==
    /\ Scenario1
    /\ ~args.continuous
    /\ smc_f.status = "returned"
    /\ smc_f.returned[1].result_detail.lean_list = <<"False">>

Scenario2 ==
    /\ property_ = [kind |-> ListThreshold, op |-> Gt, threshold |-> <<2>>]
    /\ args.data = <<1, 1, 1, 1, 1>>
    /\ args.prob_threshold = Rat(9, 10)
    /\ args.confidence = Rat(9, 10)

\* 1 - (1 - prob_threshold)^n
NoneSatisfiedConfidence(prob_threshold, n) ==
    Rat(Pow(prob_threshold.den, n)
            - Pow(prob_threshold.den - prob_threshold.num, n),
        Pow(prob_threshold.den, n))

NoneSatisfiedTrace ==
    \A n \in 1..Len(smc_f.conf_cp_list) :
        RatEq(smc_f.conf_cp_list[n],
              NoneSatisfiedConfidence(args.prob_threshold, n))

Scenario2StopsAfterOneTrial ==
    (Scenario2 /\ ~args.continuous /\ smc_f.status \in {"returned", "raised"}) =>
        /\ smc_f.status = "returned"
        /\ smc_f.returned[1].result_detail.num_trials = 1
        /\ smc_f.returned[1].result_detail.satisfied_trials = 0
        /\ RatEq(smc_f.returned[1].conf, Rat(9, 10))
        /\ smc_f.extract_calls = 1

---------------------------------------------------------------------------
(* Claims about the validation and the boundary inputs of smc *)

AtBoundary(x) == RatEq(x, Zero) \/ RatEq(x, One)

\* an input the validation of smc has to reject
InvalidSmcInput ==
    \/ ~VerifyData(property_, args.data)
    \/ RatLT(args.prob_threshold, Zero) \/ RatLT(One, args.prob_threshold)
    \/ RatLT(args.confidence, Zero) \/ RatLT(One, args.confidence)
    \/ args.continuous_type # "bool"

\* C13: smc called with prob_threshold or confidence equal to 0 or 1, with
\* continuous True or False, on data accepted by verify_data (the other
\* probability in [0, 1] too), returns an SMCResult: it never ends in an
\* exception.
C13_BoundaryProbabilitiesNeverRaise ==
    (SmcEntered /\ property_.threshold # <<>> /\ ~InvalidSmcInput
        /\ (AtBoundary(args.prob_threshold) \/ AtBoundary(args.confidence))) =>
            /\ smc_f.status # "raised"
            /\ smc_f.status = "returned" => smc_f.returned[1].result \in Verdicts

---------------------------------------------------------------------------
(* Claims about the result map and the validation of spa *)

TestedThresholds(direction) ==
    {spa_f.tested[i].threshold : i \in TestedIn(direction)}

\* C14: the result map returned by spa holds exactly the thresholds tested
\* by the upward and the downward search, each once and with the SMCResult
\* verdict of its test; the two searches test no threshold in common; the
\* map is iterated in ascending order of threshold.
C14_ResultMapIsTheVisitedThresholdsAscending ==
    SpaReturned =>
        /\ DictKeys(ResultDetail)
               = TestedThresholds("add") \cup TestedThresholds("sub")
        /\ TestedThresholds("add") \cap TestedThresholds("sub") = {}
        /\ Len(ResultDetail) = Len(spa_f.tested)
        /\ \A i \in 1..Len(spa_f.tested) :
               DictGet(ResultDetail, spa_f.tested[i].threshold).result
                   = spa_f.tested[i].result
        /\ \A i \in 1..Len(ResultDetail) : \A j \in 1..Len(ResultDetail) :
               i < j => ResultDetail[i].key < ResultDetail[j].key

C14_Witness ==
    /\ SpaReturned
    /\ Cardinality(TestedThresholds("add")) >= 2
    /\ Cardinality(TestedThresholds("sub")) >= 2
    /\ Len(ResultDetail) >= 4

AllDeterminate ==
    \A i \in 1..Len(spa_f.tested) : spa_f.tested[i].result \in {"True", "False"}

C16_InvalidInputFailsBeforeAnySample ==
    (SmcEntered /\ InvalidSmcInput) =>
        /\ smc_f.status = "raised"
        /\ smc_f.exception \in {"ValueError", "TypeError"}
        /\ smc_f.extract_calls = 0
        /\ smc_f.num_trials = 0
        /\ smc_f.satisfied_list = <<>>
        /\ smc_f.data = args.data
        /\ smc_f.returned = <<>>

C16_Witness ==
    /\ smc_f.status = "raised"
    /\ smc_f.exception = "ValueError"
    /\ VerifyData(property_, args.data)
    /\ ValidProbability(args.prob_threshold)
    /\ ValidProbability(args.confidence)
    /\ args.continuous_type = "int"
    /\ args.continuous
    /\ Len(args.data) >= 2

\* C17: spa called with a granularity that is given and <= 0 fails with a
\* ValueError in its first step; no sequential test is run, the start-point
\* estimator is not called, and the property (its threshold) is not changed.
C17_BadGranularityFailsFirst ==
    [][args.granularity <= 0 =>
          /\ spa_f.status = "call" =>
                 /\ spa_f'.status = "raised"
                 /\ spa_f'.exception = "ValueError"
          /\ property_' = property_
          /\ spa_f'.tested = <<>>
          /\ spa_f'.estimate_calls = 0
          /\ spa_f'.returned = <<>>
          /\ smc_f' = IdleFrame]_vars

C17_Witness ==
    /\ spa_f.status = "raised"
    /\ spa_f.exception = "ValueError"
    /\ args.granularity < 0
    /\ args.search_start_point = <<>>
    /\ Len(args.data) >= 1
    /\ property_.threshold # <<>>

---------------------------------------------------------------------------
(* Frame conditions: the data and the property *)

\* C18: neither smc nor spa changes the object handed in as data:
\* extract_value leaves its argument as it was and returns a new reduced
\* view, every smc run of spa, in both searches, starts from the complete
\* original data, and the data is the original when spa ends.
C18_CallerDataNeverMutated ==
    /\ SmcEntered =>
           /\ smc_f.caller_data = args.data
           /\ ExtractValue(property_, smc_f.data).argument = smc_f.data
    /\ spa_f.status # "idle" =>
           /\ spa_f.caller_data = args.data
           /\ \A i \in 1..Len(spa_f.tested) :
                  /\ spa_f.tested[i].started_with = args.data
                  /\ spa_f.tested[i].num_trials = Len(args.data)

C18_Witness ==
    /\ SpaReturned
    /\ Cardinality(TestedIn("add")) >= 2
    /\ Cardinality(TestedIn("sub")) >= 1
    /\ Len(args.data) >= 2
    /\ spa_f.caller_data = args.data

\* the property but for its threshold
WithoutThreshold(p) == [p EXCEPT !.threshold = <<>>]

\* C19: the threshold is the only state of the property that ever changes:
\* a step of smc leaves the property as it is, and a step of spa changes at
\* most the threshold, to the param the next smc run of the search tests;
\* while a search is at its loop the threshold is the param under test.
C19_OnlyThresholdChangesBetweenRuns ==
    [][/\ smc_f.status # "idle" => property_' = property_
       /\ WithoutThreshold(property_') = WithoutThreshold(property_)
       /\ spa_f.status # "idle" =>
              /\ property_' # property_ =>
                     /\ spa_f'.status = "loop"
                     /\ property_'.threshold = <<spa_f'.param>>
              /\ spa_f'.status = "loop" => property_'.threshold = <<spa_f'.param>>
              /\ Len(spa_f'.tested) > Len(spa_f.tested) =>
                     <<spa_f'.tested[Len(spa_f'.tested)].threshold>>
                         = property_.threshold
      ]_vars

C19_Witness ==
    /\ spa_f.status = "loop"
    /\ spa_f.direction = "sub"
    /\ spa_f.iteration >= 1
    /\ Len(spa_f.tested) >= 3
    /\ property_.threshold = <<spa_f.param>>
    /\ spa_f.param # spa_f.tested[Len(spa_f.tested)].threshold

---------------------------------------------------------------------------
(* Claims about extract_value *)

\* the complete units a data source holds: the values of a list, the aligned
\* pairs of rows of the two systems of a data frame
Units(p, data) ==
    IF p.kind = FrameRatio
    THEN (IF Len(data[1]) < Len(data[2]) THEN Len(data[1]) ELSE Len(data[2]))
    ELSE Len(data)

\* C20: extract_value raises OutOfDataException exactly when no complete unit
\* remains, each sample it yields takes one unit, and a source of k complete
\* units has yielded exactly k samples when out-of-data is raised.
C20_OutOfDataExactlyWhenNoUnitRemains ==
    (SmcEntered /\ ~InvalidSmcInput) =>
        /\ ExtractValue(property_, smc_f.data).out_of_data
               <=> Units(property_, smc_f.data) = 0
        /\ ~ExtractValue(property_, smc_f.data).out_of_data =>
               Units(property_, ExtractValue(property_, smc_f.data).data)
                   = Units(property_, smc_f.data) - 1
        /\ smc_f.out_of_data =>
               smc_f.extract_calls - 1 = Units(property_, args.data)

---------------------------------------------------------------------------
(* SpecTwice: a call of smc or of spa, then the same call once more with   *)
(* the same arguments and the same property object, as the first call left *)
(* it; mono keeps the frame the first call ended in                        *)

\* any call of smc, or a call of spa with a confidence strictly inside (0, 1)
InitTwice == Init \/ (InitSPA /\ args.confidence \in SearchProbabilities)

Ended(f) == f.status \in {"returned", "raised"}

\* the caller calls smc again
SmcCallAgain ==
    /\ mono = <<>>
    /\ Ended(smc_f)
    /\ mono' = <<smc_f>>
    /\ smc_f' = [status |-> "call"]
    /\ UNCHANGED <<property_, args, spa_f>>

\* the caller calls spa again
SpaCallAgain ==
    /\ mono = <<>>
    /\ Ended(spa_f)
    /\ mono' = <<spa_f>>
    /\ spa_f' = SpaLocals(args.data)
    /\ UNCHANGED <<property_, args, smc_f>>

NextTwice == Next \/ NextSPA \/ SmcCallAgain \/ SpaCallAgain

SpecTwice == InitTwice /\ [][NextTwice]_vars

C21_WitnessSmc ==
    /\ mono # <<>>
    /\ smc_f.status = "returned"
    /\ smc_f.returned[1].result_detail.num_trials >= 2
    /\ smc_f.returned[1].result # "None"

---------------------------------------------------------------------------
(* SpecError: smc on n independent samples of a population in which a      *)
(* sample satisfies the property with probability population; mono is the  *)
(* probability that the verdict smc returns is wrong                       *)

\* a greater-than property at threshold 1 on the values 1 and 2: a sample is
\* satisfied exactly when it is 2
SatisfiedValue == 2
UnsatisfiedValue == 1

SampledProperty == [kind |-> ListThreshold, op |-> Gt, threshold |-> <<1>>]

Populations == {Rat(1, 4), Rat(1, 2), Rat(3, 4)}

ErrorArgs ==
    [call : {"smc on samples"},
     prob_threshold : Probabilities \cup {Rat(1, 4)},
     confidence : Probabilities, continuous : BOOLEAN,
     num_samples : 1..MaxLen, population : Populations]

InitError ==
    /\ property_ = SampledProperty
    /\ args \in ErrorArgs
    /\ smc_f = IdleFrame
    /\ spa_f = IdleFrame
    /\ mono = <<>>

\* the verdict is wrong: True although the proportion of the population does
\* not exceed prob_threshold, or False although it does
WrongVerdict(result, population, prob_threshold) ==
    \/ result = "True" /\ ~RatLT(prob_threshold, population)
    \/ result = "False" /\ RatLT(prob_threshold, population)

RECURSIVE WrongWeight(_, _, _)
\* the sum, over the sequences of n samples that extend data, of the weight
\* population^satisfied * (1 - population)^unsatisfied (as a numerator over
\* population.den^n) of those on which the verdict of smc is wrong
WrongWeight(data, satisfied, n) ==
    IF Len(data) = n
    THEN LET run == Smc(data, property_, args.prob_threshold, args.confidence,
                        args.continuous)
         IN  IF run.status = "returned"
                  /\ WrongVerdict(run.returned[1].result, args.population,
                                  args.prob_threshold)
             THEN Pow(args.population.num, satisfied)
                      * Pow(args.population.den - args.population.num, n - satisfied)
             ELSE 0
    ELSE WrongWeight(Append(data, SatisfiedValue), satisfied + 1, n)
             + WrongWeight(Append(data, UnsatisfiedValue), satisfied, n)

ErrorApply ==
    /\ mono = <<>>
    /\ mono' = <<[error |-> Rat(WrongWeight(<<>>, 0, args.num_samples),
                                Pow(args.population.den, args.num_samples))]>>
    /\ UNCHANGED <<property_, args, smc_f, spa_f>>

NextError == ErrorApply

SpecError == InitError /\ [][NextError]_vars

\* C22: the probability that smc returns a wrong True / False verdict about
\* whether the satisfied proportion of the population exceeds prob_threshold
\* is at most 1 - confidence, whatever the number of samples.
C22_VerdictErrorAtMostOneMinusConfidence ==
    mono # <<>> => RatLE(mono[1].error, RatSub(One, args.confidence))

---------------------------------------------------------------------------
(* Claims about the course of the two searches *)

\* the tests of a direction, in the order they were made
TestsOf(direction) ==
    SelectSeq(spa_f.tested, LAMBDA t : t.direction = direction)

SearchBegun == spa_f.status # "idle" /\ spa_f.direction # "None"

\* C23: the goal of the upward search is high_threshold_outcome and the goal
\* of the downward search its negation; a search stops at the first
\* threshold whose verdict is its goal: of the thresholds a direction tested
\* only the last can have the goal verdict, nothing is tested beyond it, and
\* spa goes on to the next stage only from a test with the goal verdict.
C23_SearchStopsAtFirstGoalVerdict ==
    SearchBegun =>
        /\ spa_f.goal_bool_incr = PyBool(HighThresholdOutcome(property_))
        /\ spa_f.goal_bool_decr = PyBool(~HighThresholdOutcome(property_))
        /\ \A direction \in {"add", "sub"} :
               LET tests == TestsOf(direction)
               IN  /\ \A i \in 1..Len(tests) :
                          tests[i].result = GoalOf(direction) => i = Len(tests)
                   /\ \A i \in 1..(Len(tests) - 1) :
                          tests[i + 1].threshold
                              = NextParam(direction, tests[i].threshold,
                                          spa_f.granularity)
        /\ spa_f.status = "loop" => ~ReachedGoal(spa_f.direction)
        /\ (spa_f.direction = "sub" \/ spa_f.status \in {"combine", "returned"}) =>
               ReachedGoal("add")
        /\ spa_f.status \in {"combine", "returned"} => ReachedGoal("sub")
        /\ TestsOf("sub") # <<>> => ReachedGoal("add")

C23_Witness ==
    /\ SpaReturned
    /\ Len(TestsOf("add")) >= 2
    /\ Len(TestsOf("sub")) >= 2
    /\ TestsOf("add")[1].result # GoalOf("add")
    /\ TestsOf("sub")[1].result # GoalOf("sub")

---------------------------------------------------------------------------
(* Claims about the traces and the verdict of smc *)

Last(seq) == seq[Len(seq)]

\* C24: when extraction signals out-of-data after at least one trial, the
\* verdict is None if the confidence of the last trial is below the target,
\* whatever the earlier confidences were, and otherwise it is
\* (satisfied_trials / num_trials > prob_threshold), the last entry of the
\* lean trace.
C24_OutOfDataVerdictFromLastTrial ==
    (smc_f.status = "returned" /\ smc_f.out_of_data
        /\ smc_f.conf_cp_list # <<>>) =>
            LET r == smc_f.returned[1]
                d == r.result_detail
            IN  IF RatLT(Last(d.conf_cp_list), args.confidence)
                THEN r.result = "None"
                ELSE /\ r.result = PyBool(d.satisfied_trials * args.prob_threshold.den
                                             > args.prob_threshold.num * d.num_trials)
                     /\ r.result = Last(d.lean_list)

C24_Witness ==
    /\ smc_f.status = "returned"
    /\ smc_f.out_of_data
    /\ args.continuous
    /\ Len(smc_f.conf_cp_list) >= 2
    /\ RatLT(Last(smc_f.conf_cp_list), args.confidence)
    /\ \E i \in 1..Len(smc_f.conf_cp_list) :
           ~RatLT(smc_f.conf_cp_list[i], args.confidence)
    /\ smc_f.returned[1].result = "None"

---------------------------------------------------------------------------
(* SpecGranularity: the first lines of spa when no granularity is given:   *)
(* the granularity derived from the start point, the start point rounded   *)
(* to it, and the thresholds a search then steps through                   *)

RatAdd(x, y) == Rat(x.num * y.den + y.num * x.den, x.den * y.den)

\* 10 ** k for an integer k
PowerOfTen(k) == IF k >= 0 THEN Rat(Pow(10, k), 1) ELSE Rat(1, Pow(10, -k))

RECURSIVE CeilLog10Up(_, _)
\* the least k >= 0 with x <= 10^k
CeilLog10Up(x, k) ==
    IF x.num <= x.den * Pow(10, k) THEN k ELSE CeilLog10Up(x, k + 1)

RECURSIVE CeilLog10Down(_, _)
\* minus the greatest j >= k with x <= 10^(-j), for x <= 10^(-k)
CeilLog10Down(x, k) ==
    IF x.num * Pow(10, k + 1) <= x.den THEN CeilLog10Down(x, k + 1) ELSE -k

\* ceil(log10(x)) for a rational x > 0
CeilLog10(x) ==
    IF x.num <= x.den THEN CeilLog10Down(x, 0) ELSE CeilLog10Up(x, 0)

\* spa, lines 172-173: 10 ** ceil(log10(search_start_point / 1000)); log10
\* raises ValueError (math domain error) for an argument <= 0
DerivedGranularity(search_start_point) ==
    IF search_start_point.num <= 0
    THEN [exception |-> "ValueError", value |-> Zero]
    ELSE [exception |-> "None",
          value |-> PowerOfTen(CeilLog10(Rat(search_start_point.num,
                                             search_start_point.den * 1000)))]

\* util.round_to for a rational precision > 0, over the denominator of the
\* precision
RatRoundTo(val, precision) ==
    Rat(PyRound(val.num * precision.den, val.den * precision.num) * precision.num,
        precision.den)

RECURSIVE ParamAfter(_, _, _, _)
\* _linear_search, line 133, applied steps times
ParamAfter(param, direction, granularity, steps) ==
    IF steps = 0 THEN param
    ELSE ParamAfter(RatRoundTo(IF direction = "add"
                               THEN RatAdd(param, granularity)
                               ELSE RatSub(param, granularity), granularity),
                    direction, granularity, steps - 1)

\* spa, lines 168-188: the granularity, and the threshold a search tests
\* after the given number of steps
SpaStart(a) ==
    LET start == Rat(a.search_start_point, 1)
        g == DerivedGranularity(start)
        rounded == RatRoundTo(start, g.value)
        first == IF a.direction = "add" THEN rounded
                 ELSE RatRoundTo(RatSub(rounded, g.value), g.value)
    IN  IF g.exception # "None"
        THEN [exception |-> g.exception, granularity |-> Zero, param |-> Zero]
        ELSE [exception |-> "None", granularity |-> g.value,
              param |-> ParamAfter(first, a.direction, g.value, a.steps)]

\* the start points: m * 10^e
StartPoints == {m * Pow(10, e) : m \in -1..9, e \in 0..MaxExp}

GranularityArgs ==
    [call : {"spa without granularity"}, search_start_point : StartPoints,
     direction : {"add", "sub"}, steps : 0..MaxIter]

InitGranularity ==
    /\ property_ \in [kind : {ListThreshold}, op : {Gt, Lt}, threshold : {<<>>}]
    /\ args \in GranularityArgs
    /\ smc_f = IdleFrame
    /\ spa_f = IdleFrame
    /\ mono = <<>>

GranularityApply ==
    /\ mono = <<>>
    /\ mono' = <<SpaStart(args)>>
    /\ UNCHANGED <<property_, args, smc_f, spa_f>>

NextGranularity == GranularityApply

SpecGranularity == InitGranularity /\ [][NextGranularity]_vars

RECURSIVE FracGE(_, _, _, _)
\* a / b >= c / d for positive integers, without products
FracGE(a, b, c, d) ==
    IF a \div b # c \div d THEN a \div b > c \div d
    ELSE IF c % d = 0 THEN TRUE
    ELSE IF a % b = 0 THEN FALSE
    ELSE FracGE(d, c % d, b, a % b)

Distance(m, n) == IF m < n THEN n - m ELSE m - n

\* 10^k is a power of ten nearest to start / 1000 (start > 0): by distance,
\* in units of 10^(-5), or by ratio, n / d being start / (1000 * 10^k)
NearestPowerOfTen(k, start) ==
    LET x == start * 100
        g == Pow(10, k + 5)
        n == IF k >= 0 THEN start ELSE start * Pow(10, -k)
        d == IF k >= 0 THEN 1000 * Pow(10, k) ELSE 1000
    IN  \/ /\ Distance(g, x) <= Distance(g \div 10, x)
           /\ Distance(g, x) <= Distance(10 * g, x)
        \/ /\ FracGE(10 * n, d, d, n)
           /\ FracGE(10 * d, n, n, d)

\* val is an integer multiple of precision
IsMultipleOf(val, precision) ==
    (val.num * precision.den) % (val.den * precision.num) = 0

\* C25: when no granularity is supplied spa uses, for every start point, the
\* power of ten nearest to start / 1000, and then tests only integer
\* multiples of that granularity.
C25_DerivedGranularityNearestPowerOfTen ==
    mono # <<>> =>
        /\ mono[1].exception = "None"
        /\ \E k \in -3..3 :
               /\ mono[1].granularity = PowerOfTen(k)
               /\ NearestPowerOfTen(k, args.search_start_point)
        /\ IsMultipleOf(mono[1].param, mono[1].granularity)

---------------------------------------------------------------------------
(* The bookkeeping of smc: counters and traces *)

\* the counters and traces of a frame or of the detail of a result agree
Consistent(d) ==
    /\ Len(d.conf_cp_list) = d.num_trials
    /\ Len(d.lean_list) = d.num_trials
    /\ 0 <= d.satisfied_trials
    /\ d.satisfied_trials <= d.num_trials

\* seq is long with one element more at its end, or is short itself
AppendedTo(short, long) ==
    \/ long = short
    \/ Len(long) = Len(short) + 1 /\ SubSeq(long, 1, Len(short)) = short

\* one step of a running smc: a whole iteration (the run goes on) adds one
\* trial; any step adds one trial and at most one satisfied trial, or none,
\* and leaves what the traces already hold in place
SmcStepBookkeeping ==
    smc_f.status = "loop" =>
        /\ smc_f'.status = "loop" => smc_f'.num_trials = smc_f.num_trials + 1
        /\ smc_f'.num_trials \in {smc_f.num_trials, smc_f.num_trials + 1}
        /\ smc_f'.satisfied_trials - smc_f.satisfied_trials \in
               IF smc_f'.num_trials = smc_f.num_trials THEN {0} ELSE {0, 1}
        /\ AppendedTo(smc_f.conf_cp_list, smc_f'.conf_cp_list)
        /\ AppendedTo(smc_f.lean_list, smc_f'.lean_list)
        /\ Len(smc_f'.conf_cp_list) = smc_f'.num_trials
        /\ Len(smc_f'.lean_list) = smc_f'.num_trials

\* the result smc returned is the state of its locals, and its conf is the
\* last entry of the confidence trace
ReturnedBookkeeping ==
    smc_f.status = "returned" =>
        LET r == smc_f.returned[1]
        IN  /\ Consistent(r.result_detail)
            /\ r.result_detail.num_trials = smc_f.num_trials
            /\ r.result_detail.satisfied_trials = smc_f.satisfied_trials
            /\ r.result_detail.conf_cp_list = smc_f.conf_cp_list
            /\ r.result_detail.lean_list = smc_f.lean_list
            /\ r.result_detail.num_trials >= 1 =>
                   r.conf = Last(r.result_detail.conf_cp_list)

\* C26: at every iteration of smc and in every returned SMCResult the two
\* traces are as long as num_trials, 0 <= satisfied_trials <= num_trials,
\* an iteration adds exactly one trial and at most one satisfied trial, the
\* traces are only appended to, and the returned conf is the last entry of
\* the confidence trace when there was a trial.
C26_CountersAndTracesAgree ==
    /\ [](smc_f.status \in {"loop", "returned"} => Consistent(smc_f))
    /\ []ReturnedBookkeeping
    /\ [][SmcStepBookkeeping]_vars

\* a run is returned after several trials, some satisfied and some not
C26_Witness ==
    /\ smc_f.status = "returned"
    /\ smc_f.returned[1].result_detail.num_trials >= 2
    /\ smc_f.returned[1].result_detail.satisfied_trials >= 1
    /\ smc_f.returned[1].result_detail.satisfied_trials
           < smc_f.returned[1].result_detail.num_trials
    /\ smc_f.returned[1].conf = Last(smc_f.conf_cp_list)

---------------------------------------------------------------------------
(* The side of prob_threshold the reported confidence is about *)

\* the sub-interval a verdict asserts the proportion to lie in
AssertedSide(result, prob_threshold) ==
    IF result = "True" THEN <<prob_threshold, One>> ELSE <<Zero, prob_threshold>>

\* C27: whenever smc returns a determinate verdict, the reported confidence
\* is the one computed over the side the verdict asserts: (prob_threshold, 1)
\* for True, (0, prob_threshold) for False, also when the sample proportion
\* equals prob_threshold.
C27_ConfidenceIsOfTheVerdictSide ==
    (smc_f.status = "returned" /\ smc_f.returned[1].result \in {"True", "False"}) =>
        LET r == smc_f.returned[1]
            side == AssertedSide(r.result, args.prob_threshold)
        IN  RatEq(r.conf,
                  ClopperPearson(r.result_detail.satisfied_trials,
                                 r.result_detail.num_trials, side[1], side[2]))

---------------------------------------------------------------------------
(* The results spa stores and the thresholds they were produced at *)

\* result is what smc returns on the data of the call when the threshold of
\* the property is t
ProducedAt(t, result) ==
    LET run == Smc(args.data, [property_ EXCEPT !.threshold = <<t>>],
                   args.prob_threshold, args.confidence, TRUE)
    IN  run.status = "returned" /\ run.returned[1] = result

\* the map a search is filling, or has handed back to spa
MapOf(f, direction) ==
    IF f.status = "loop" THEN f.smc_res_detail
    ELSE IF direction = "add" THEN f.smc_dict_incr
    ELSE f.smc_dict_decr

\* C28: in a call of spa every result stored under key t was produced by an
\* smc run during which the threshold of the property was t: the run that
\* adds a result starts with the threshold at the key the result is stored
\* under, the result is the one smc gives at that key, and so is every
\* result of the map spa returns.
C28_StoredResultProducedAtItsKey ==
    /\ [](spa_f.status = "returned" =>
             \A t \in DictKeys(ResultDetail) :
                 ProducedAt(t, DictGet(ResultDetail, t)))
    /\ [][(spa_f.status # "idle" /\ Len(spa_f'.tested) > Len(spa_f.tested)) =>
              LET t == Last(spa_f'.tested).threshold
                  d == MapOf(spa_f', spa_f.direction)
              IN  /\ property_.threshold = <<t>>
                  /\ t \in DictKeys(d)
                  /\ ProducedAt(t, DictGet(d, t))
                  /\ \A k \in DictKeys(spa_f.smc_res_detail) :
                         /\ k \in DictKeys(d)
                         /\ DictGet(d, k) = DictGet(spa_f.smc_res_detail, k)]_vars

\* spa returned a map of at least three thresholds whose results are not
\* all the same
C28_Witness ==
    /\ spa_f.status = "returned"
    /\ Cardinality(DictKeys(ResultDetail)) >= 3
    /\ \E t1, t2 \in DictKeys(ResultDetail) :
           DictGet(ResultDetail, t1) # DictGet(ResultDetail, t2)
    /\ \A t \in DictKeys(ResultDetail) : ProducedAt(t, DictGet(ResultDetail, t))

---------------------------------------------------------------------------
(* SpecTermination: the caller makes one call, of smc on a list or on a     *)
(* data frame, or of spa.  A call of smc takes its next step as long as it  *)
(* has one; the steps of spa are counted down by SpaStepsLeft.              *)

NotCalled == [call |-> "none"]

InitTermination ==
    /\ property_ = [kind |-> "none"]
    /\ args = NotCalled
    /\ smc_f = IdleFrame
    /\ spa_f = IdleFrame
    /\ mono = <<>>

\* the arguments of the calls: valid probabilities, the ends of [0, 1]
\* among them, and a granularity of one
TerminationSmcArgs(datas) ==
    [call : {"smc"}, data : datas,
     prob_threshold : {Rat(0, 1), Rat(1, 2), Rat(1, 1)},
     confidence : {Rat(1, 2), Rat(1, 1)}, continuous : BOOLEAN,
     continuous_type : {"bool"}]

TerminationSpaArgs ==
    {a \in SpaArgs : /\ a.prob_threshold = Rat(1, 2)
                     /\ a.confidence = Rat(3, 4)
                     /\ a.granularity = 1}

\* the caller builds a property and the arguments and makes the call
BeginCall ==
    /\ args = NotCalled
    /\ \/ /\ property_' \in ThresholdProperties
          /\ args' \in TerminationSmcArgs(DataLists)
          /\ smc_f' = [status |-> "call"]
          /\ spa_f' = IdleFrame
       \/ /\ property_' \in {p \in RatioProperties : p.threshold # <<>> /\ p.op = Gt}
          /\ args' \in TerminationSmcArgs(DataFrames)
          /\ smc_f' = [status |-> "call"]
          /\ spa_f' = IdleFrame
       \/ /\ property_' \in SearchProperties
          /\ args' \in TerminationSpaArgs
          /\ smc_f' = IdleFrame
          /\ spa_f' = SpaLocals(args'.data)
    /\ UNCHANGED mono

NextTermination == BeginCall \/ Next \/ NextSPA

SpecTermination ==
    InitTermination /\ [][NextTermination]_vars /\ WF_vars(BeginCall \/ Next)

\* the smc runs a search has made
RunsOf(direction) == Len(TestsOf(direction))

\* a bound on the steps a call of spa still has to take
SpaStepsLeft(f) ==
    LET limit == args.iteration_limit
    IN  CASE f.status = "call" -> 2 * limit + 6
          [] f.status = "search" /\ f.direction = "add" -> 2 * limit + 5
          [] f.status = "loop" /\ f.direction = "add" ->
                 limit + 4 + (limit - f.iteration)
          [] f.status = "search" /\ f.direction = "sub" -> limit + 3
          [] f.status = "loop" /\ f.direction = "sub" -> 2 + (limit - f.iteration)
          [] f.status = "combine" -> 1
          [] OTHER -> 0

\* C29: smc terminates on every finite data source, num_trials never
\* exceeds the number of units of the source and every trial takes at least
\* one unit from the data; spa ends too (each of its steps brings it nearer
\* to its end), after at most iteration_limit smc runs in each direction, at
\* most 2 * iteration_limit in all and none when iteration_limit is 0.
C29_CallsEndWithinTheirBudget ==
    /\ <>(args # NotCalled /\ smc_f.status \in {"idle", "returned", "raised"})
    /\ []((SmcEntered /\ ~InvalidSmcInput) =>
              smc_f.num_trials + Units(property_, smc_f.data)
                  <= Units(property_, args.data))
    /\ [][(smc_f.status = "loop" /\ smc_f'.num_trials > smc_f.num_trials) =>
              Units(property_, smc_f'.data) < Units(property_, smc_f.data)]_vars
    /\ [](spa_f.status # "idle" =>
              /\ RunsOf("add") <= args.iteration_limit
              /\ RunsOf("sub") <= args.iteration_limit
              /\ Len(spa_f.tested) <= 2 * args.iteration_limit
              /\ spa_f.status = "loop" =>
                     /\ spa_f.iteration <= args.iteration_limit
                     /\ RunsOf(spa_f.direction) = spa_f.iteration
              /\ SpaStepsLeft(spa_f) >= 0
              /\ SpaStepsLeft(spa_f) = 0 <=> Ended(spa_f))
    /\ [][spa_f.status # "idle" => SpaStepsLeft(spa_f') < SpaStepsLeft(spa_f)]_vars

\* a search gave up after iteration_limit runs of smc, each of which went
\* through all the data
C29_Witness ==
    /\ spa_f.status = "raised"
    /\ spa_f.exception = "SPAException"
    /\ args.iteration_limit >= 2
    /\ Len(args.data) >= 2
    /\ RunsOf(spa_f.direction) = args.iteration_limit
    /\ \A i \in 1..Len(spa_f.tested) : spa_f.tested[i].num_trials = Len(args.data)

---------------------------------------------------------------------------
(* The threshold spa leaves in the property *)

\* the search of the given direction ran out of iterations
SearchExhausted(direction) ==
    /\ spa_f.status = "raised"
    /\ spa_f.exception = "SPAException"
    /\ spa_f.direction = direction

\* C30: spa neither uses nor restores the threshold the property came with:
\* after a successful call the threshold is the last one the downward search
\* tested; after a search ran out of iterations it is the next step beyond
\* the last threshold that search tested, itself untested (the start of the
\* search when it tested none); and a call on the property as the first
\* call left it ends as the first call did.
C30_ThresholdLeftByTheSearch ==
    /\ spa_f.status = "returned" =>
           /\ TestsOf("sub") # <<>>
           /\ property_.threshold = <<Last(TestsOf("sub")).threshold>>
    /\ \A direction \in {"add", "sub"} :
           SearchExhausted(direction) =>
               /\ property_.threshold = <<spa_f.param>>
               /\ \A i \in 1..Len(spa_f.tested) :
                      spa_f.tested[i].direction = direction =>
                          spa_f.tested[i].threshold # spa_f.param
               /\ TestsOf(direction) # <<>> =>
                      spa_f.param = NextParam(direction,
                                              Last(TestsOf(direction)).threshold,
                                              spa_f.granularity)
               /\ TestsOf(direction) = <<>> =>
                      /\ args.iteration_limit = 0
                      /\ spa_f.param = spa_f.search_start_point
    /\ (mono # <<>> /\ Ended(spa_f) /\ spa_f.exception \in {"None", "SPAException"}) =>
           /\ spa_f.returned = mono[1].returned
           /\ spa_f.exception = mono[1].exception

\* a second call, on a property whose threshold the first call left at the
\* end of its downward search, succeeds after a downward search of several
\* steps
C30_Witness ==
    /\ mono # <<>>
    /\ mono[1].status = "returned"
    /\ spa_f.status = "returned"
    /\ Len(TestsOf("sub")) >= 2
    /\ property_.threshold = <<Last(TestsOf("sub")).threshold>>
    /\ property_.threshold # <<TestsOf("add")[1].threshold>>

====
